---- MODULE Spec2Model ----
(***************************************************************************)
(* Model of gc_booker.py: the free-slot search get_free_slots, the slot    *)
(* selection of the main program and book_meeting.                         *)
(*                                                                         *)
(* Time is counted in minutes of local wall-clock time, minute 0 being     *)
(* local midnight of the day the program starts.  The calendar reports     *)
(* busy intervals in UTC; tzoff is the zone's offset (local = UTC + tzoff). *)
(***************************************************************************)
EXTENDS Integers, Sequences, FiniteSets, TLC

\* ---------------------------------------------------------------- bounds
MaxDay == 8          \* day offsets the model explores
MaxTicks == 1        \* clock advances the model explores
TickMinutes == 45    \* minutes one clock advance adds

\* ---------------------------------------------------- program constants
DayMinutes == 1440
WorkStartHour == 9
WorkEndHour == 17
SlotMinutes == 30
LunchStartHour == 11
LunchEndHour == 13
MaxMeetingHours == 5
DefaultMinSlots == 5
HttpOk == 200

email_addresses == <<"primary", "other">>
first_email == email_addresses[1]
Emails == {email_addresses[i] : i \in 1..Len(email_addresses)}

\* the list with Saturday in it
weekdays_with_saturday == {0, 1, 2, 3, 4, 5}
\* line 80
weekdays == {0, 1, 2, 3, 4}

None == <<>>

VARIABLES
    pc,             \* position of the program
    error,          \* the uncaught exception that ended the program, or "none"
    tzoff,          \* offset of the calendar's time zone from UTC, minutes
    start_weekday,  \* weekday (0 = Monday) of the day the program starts
    clock,          \* the wall clock, local minutes
    min_slots,      \* the quota get_free_slots is called with
    local_now,      \* the clock value read at line 79
    free_slots,     \* the slots collected so far
    day_offset,
    events_result,  \* the freebusy answer for the current day
    busy_intervals, \* its intervals converted to local time
    current_time,   \* cursor of the slot loop
    ticks,          \* clock advances so far
    queried,        \* day offsets a freebusy query was issued for, in order
    main_free_slots,\* what get_free_slots returned to the main program
    title,          \* args.title
    slot_choice,    \* the parsed selection, or "none"
    lookups,        \* ticket keys looked up, in order
    jira_response,  \* what the last ticket lookup came to
    inserted        \* events handed to events().insert, in order

vars == <<pc, error, tzoff, start_weekday, clock, min_slots, local_now,
          free_slots, day_offset, events_result, busy_intervals, current_time,
          ticks, queried, main_free_slots, title, slot_choice, lookups,
          jira_response, inserted>>

searchVars == <<free_slots, day_offset, events_result, busy_intervals,
                current_time, queried>>
mainVars == <<main_free_slots, slot_choice, lookups, jira_response,
             inserted>>
envVars == <<tzoff, start_weekday, min_slots, local_now, title>>

\* ------------------------------------------------------ date arithmetic
\* check_date = local_now + timedelta(days=day_offset)
CheckDate(off) == local_now + off * DayMinutes
DateOf(t) == t \div DayMinutes
\* datetime.weekday()
WeekdayOf(t) == (start_weekday + DateOf(t)) % 7
\* datetime.hour
HourOf(t) == (t % DayMinutes) \div 60
\* check_date.replace(hour=h, minute=0, second=0, microsecond=0)
ReplaceHour(t, h) == DateOf(t) * DayMinutes + h * 60
StartOfDay(off) == ReplaceHour(CheckDate(off), WorkStartHour)
EndOfDay(off) == ReplaceHour(CheckDate(off), WorkEndHour)

\* ------------------------------------------------- the calendar's answer
\* A timestamp of the answer: a well-formed "....Z" string carrying a UTC
\* time, or a string datetime.fromisoformat rejects.
Stamp(m) == [ok |-> TRUE, utc |-> m]
BadStamp == [ok |-> FALSE, utc |-> 0]
\* a busy interval a..b (local minutes of the day at offset off), as reported
BusyAt(off, a, b) ==
    [start |-> Stamp(off * DayMinutes + a - tzoff),
     end   |-> Stamp(off * DayMinutes + b - tzoff)]
Entry(busy) == [present |-> TRUE, busy |-> busy]
MissingEntry == [present |-> FALSE, busy |-> <<>>]

\* answers for the primary attendee: free, exactly 5 h, 6.5 h, two intervals
\* of 5.5 h together, a malformed end, no entry at all
PrimaryAnswers(off) ==
    { Entry(<<>>),
      Entry(<<BusyAt(off, 540, 840)>>),
      Entry(<<BusyAt(off, 540, 930)>>),
      Entry(<<BusyAt(off, 540, 720), BusyAt(off, 810, 960)>>),
      Entry(<<[start |-> Stamp(off * DayMinutes + 540 - tzoff), end |-> BadStamp]>>),
      MissingEntry }

\* answers for the other attendee: free, 09:30-10:00, 09:00-16:30 (7.5 h),
\* 09:00-17:00, a malformed start, no entry at all
OtherAnswers(off) ==
    { Entry(<<>>),
      Entry(<<BusyAt(off, 570, 600)>>),
      Entry(<<BusyAt(off, 540, 990)>>),
      Entry(<<BusyAt(off, 540, 1020)>>),
      Entry(<<[start |-> BadStamp, end |-> Stamp(off * DayMinutes + 600 - tzoff)]>>),
      MissingEntry }

\* service.freebusy().query(...).execute()['calendars']
FreeBusyAnswers(off) ==
    { [e \in Emails |-> IF e = first_email THEN p ELSE o] :
        p \in PrimaryAnswers(off), o \in OtherAnswers(off) }

\* ------------------------------------------------------ day evaluation
\* tz.normalize(fromisoformat(s[:-1]).replace(tzinfo=utc).astimezone(tz))
ParsesOk(ts) == ts.ok
ToLocal(ts) == ts.utc + tzoff

AllParseOk(busy) ==
    \A i \in 1..Len(busy) : ParsesOk(busy[i].start) /\ ParsesOk(busy[i].end)

\* lines 108-112: the loop summing end - start over the primary's intervals
RECURSIVE total_meeting_time(_)
total_meeting_time(busy) ==
    IF busy = <<>> THEN 0
    ELSE (ToLocal(Head(busy).end) - ToLocal(Head(busy).start))
         + total_meeting_time(Tail(busy))

\* the admission test with >= for >
DayRejectedAtFive(total) == total >= MaxMeetingHours * 60
\* line 115
DayRejected(total) == total > MaxMeetingHours * 60

\* lines 120-122: busy_times.extend(...) for each address in order
RECURSIVE busy_times_from(_, _)
busy_times_from(er, i) ==
    IF i > Len(email_addresses) THEN <<>>
    ELSE er[email_addresses[i]].busy \o busy_times_from(er, i + 1)
busy_times(er) == busy_times_from(er, 1)

\* lines 125-131
ConvertIntervals(busy) ==
    [i \in 1..Len(busy) |-> <<ToLocal(busy[i].start), ToLocal(busy[i].end)>>]

\* What lines 107-131 come to for one answer: the exception that escapes,
\* or the verdict of the admission test.
DayOutcome(er) ==
    IF ~er[first_email].present THEN "KeyError"
    ELSE IF ~AllParseOk(er[first_email].busy) THEN "ValueError"
    ELSE IF DayRejected(total_meeting_time(er[first_email].busy)) THEN "rejected"
    ELSE IF \E e \in Emails : ~er[e].present THEN "KeyError"
    ELSE IF ~AllParseOk(busy_times(er)) THEN "ValueError"
    ELSE "admitted"

\* ------------------------------------------------------------ slot loop
\* line 140
SkipLunch(slot_start, slot_end) ==
    HourOf(slot_start) >= LunchStartHour /\ HourOf(slot_end) < LunchEndHour
\* the past test on the slot's end
InPastByEnd(slot_start, now) == slot_start + SlotMinutes < now
\* line 145
InPast(slot_start, now) == slot_start < now
\* the overlap test with closed intervals
slot_is_free_closed(slot_start, slot_end, intervals) ==
    \A i \in 1..Len(intervals) :
        ~(slot_start <= intervals[i][2] /\ slot_end >= intervals[i][1])
\* lines 150-153
slot_is_free(slot_start, slot_end, intervals) ==
    \A i \in 1..Len(intervals) :
        ~(slot_start < intervals[i][2] /\ slot_end > intervals[i][1])

\* a return without the truncation to the quota
SliceWhole(s, n) == s
\* free_slots[:min_slots]
Slice(s, n) == SubSeq(s, 1, IF n < Len(s) THEN n ELSE Len(s))

NoAnswer == [e \in Emails |-> Entry(<<>>)]

\* -------------------------------------------------------------- tickets
\* Strings are sequences of characters.
Upper == {"A", "B", "C"}
Digit == {"2", "4"}
Titles == { <<"A", "B", "-", "4", "2", " ", "k">>,
            <<"s", "y", "n", "c">> }
Summaries == { <<"K", "i", "c", "k">> }

\* length of the longest run of characters of class cls starting at s[i]
RECURSIVE RunLen(_, _, _)
RunLen(s, i, cls) ==
    IF i <= Len(s) /\ s[i] \in cls THEN 1 + RunLen(s, i + 1, cls) ELSE 0

\* re.match(r'^([A-Z]+-\d+)', meeting_name)
extract_jira_key(meeting_name) ==
    LET u == RunLen(meeting_name, 1, Upper)
        d == IF u > 0 /\ u + 1 <= Len(meeting_name) /\ meeting_name[u + 1] = "-"
             THEN RunLen(meeting_name, u + 2, Digit) ELSE 0
    IN  IF d > 0 THEN SubSeq(meeting_name, 1, u + 1 + d) ELSE None

\* what requests.get may come to: an HTTP response, or an exception of the
\* transport (requests.exceptions.ConnectionError)
JiraResponses ==
    { [kind |-> "response", status_code |-> HttpOk, summary |-> t] : t \in Summaries }
    \cup { [kind |-> "response", status_code |-> 404, summary |-> None],
           [kind |-> "exception", status_code |-> 0, summary |-> None] }

NoResponse == [kind |-> "none", status_code |-> 0, summary |-> None]

\* lines 67-72, for a response
get_jira_ticket_title(response) ==
    IF response.status_code = HttpOk THEN response.summary ELSE None

\* f"{jira_key} - {jira_title}"
KeyAndTitle(jira_key, jira_title) == jira_key \o <<" ", "-", " ">> \o jira_title

\* lines 177-181: the title the event is given
MeetingName(meeting_name, response) ==
    LET jira_key == extract_jira_key(meeting_name)
        jira_title == get_jira_ticket_title(response)
    IN  IF jira_key # None /\ jira_title # None
        THEN KeyAndTitle(jira_key, jira_title) ELSE meeting_name

\* ------------------------------------------------------------ selection
\* what input() may return
Inputs == { <<>>, <<"x">>, <<"2", "x">>, <<"-", "1">>, <<"0">>, <<"1">>, <<"2">>,
            <<"5">>, <<"6">>, <<"1", "2">> }
DecimalDigits == {"0", "1", "2", "3", "4", "5", "6", "7", "8", "9"}
DigitValue(c) ==
    CASE c = "0" -> 0 [] c = "1" -> 1 [] c = "2" -> 2 [] c = "3" -> 3
      [] c = "4" -> 4 [] c = "5" -> 5 [] c = "6" -> 6 [] c = "7" -> 7
      [] c = "8" -> 8 [] c = "9" -> 9
RECURSIVE DigitsValue(_)
DigitsValue(s) ==
    IF s = <<>> THEN 0
    ELSE 10 * DigitsValue(SubSeq(s, 1, Len(s) - 1)) + DigitValue(s[Len(s)])
\* int(text): an optional sign and at least one digit, or ValueError
IntDigits(text) == IF text # <<>> /\ Head(text) = "-" THEN Tail(text) ELSE text
IntParses(text) ==
    IntDigits(text) # <<>>
    /\ \A i \in 1..Len(IntDigits(text)) : IntDigits(text)[i] \in DecimalDigits
IntOf(text) ==
    IF Head(text) = "-" THEN 0 - DigitsValue(Tail(text)) ELSE DigitsValue(text)
\* s[i] of a Python list: a negative index counts from the end
PyIndex(s, i) == IF i < 0 THEN s[Len(s) + i + 1] ELSE s[i + 1]
\* the range test letting 0 through
InvalidChoiceBelowZero(choice, slots) == choice < -1 \/ choice >= Len(slots)
\* line 251
InvalidChoice(choice, slots) == choice < 0 \/ choice >= Len(slots)

\* ----------------------------------------------------------------- Init
StartWeekdays == {3, 5}
LocalNows == {8 * 60, 10 * 60 + 15, 17 * 60 + 30}
TzOffsets == {0, 60}
MinSlotsChoices == {0, DefaultMinSlots}

Init ==
    /\ pc = "search"
    /\ error = "none"
    /\ tzoff \in TzOffsets
    /\ start_weekday \in StartWeekdays
    /\ local_now \in LocalNows
    /\ clock = local_now
    /\ min_slots \in MinSlotsChoices
    /\ title \in Titles
    /\ free_slots = <<>>
    /\ day_offset = 0
    /\ events_result = NoAnswer
    /\ busy_intervals = <<>>
    /\ current_time = 0
    /\ ticks = 0
    /\ queried = <<>>
    /\ main_free_slots = <<>>
    /\ slot_choice = <<>>
    /\ lookups = <<>>
    /\ jira_response = NoResponse
    /\ inserted = <<>>

\* -------------------------------------------------------------- actions
\* the wall clock advances while get_free_slots runs
Tick ==
    /\ pc \in {"search", "slots"}
    /\ ticks < MaxTicks
    /\ clock' = clock + TickMinutes
    /\ ticks' = ticks + 1
    /\ UNCHANGED <<pc, error, searchVars, mainVars, envVars>>

\* the loop test with <= for <
SearchingOneMore ==
    pc = "search" /\ Len(free_slots) <= min_slots /\ day_offset < MaxDay
\* line 86
Searching == pc = "search" /\ Len(free_slots) < min_slots /\ day_offset < MaxDay

\* lines 88-90
SkipWeekend ==
    /\ Searching
    /\ WeekdayOf(CheckDate(day_offset)) \notin weekdays
    /\ day_offset' = day_offset + 1
    /\ UNCHANGED <<pc, error, clock, ticks, free_slots, events_result,
                   busy_intervals, current_time, queried, mainVars, envVars>>

\* lines 93-131: the query for a weekday and the admission test
QueryDay ==
    /\ Searching
    /\ WeekdayOf(CheckDate(day_offset)) \in weekdays
    /\ \E er \in FreeBusyAnswers(day_offset) :
        LET outcome == DayOutcome(er) IN
        /\ events_result' = er
        /\ queried' = Append(queried, day_offset)
        /\ CASE outcome = "admitted" ->
                  /\ busy_intervals' = ConvertIntervals(busy_times(er))
                  /\ current_time' = StartOfDay(day_offset)
                  /\ pc' = "slots"
                  /\ UNCHANGED <<error, day_offset>>
             [] outcome = "rejected" ->
                  /\ day_offset' = day_offset + 1
                  /\ UNCHANGED <<pc, error, busy_intervals, current_time>>
             [] OTHER ->
                  /\ pc' = "crashed"
                  /\ error' = outcome
                  /\ UNCHANGED <<day_offset, busy_intervals, current_time>>
    /\ UNCHANGED <<clock, ticks, free_slots, mainVars, envVars>>

\* lines 135-158: one turn of the slot loop
ExamineSlot ==
    /\ pc = "slots"
    /\ current_time + SlotMinutes <= EndOfDay(day_offset)
    /\ LET slot_start == current_time
           slot_end == slot_start + SlotMinutes
       IN  /\ free_slots' =
                 IF SkipLunch(slot_start, slot_end) THEN free_slots
                 ELSE IF InPast(slot_start, clock) THEN free_slots
                 ELSE IF slot_is_free(slot_start, slot_end, busy_intervals)
                      THEN Append(free_slots, <<slot_start, slot_end>>)
                 ELSE free_slots
           /\ current_time' = slot_end
    /\ UNCHANGED <<pc, error, clock, ticks, day_offset, events_result,
                   busy_intervals, queried, mainVars, envVars>>

\* line 135 false, line 160
EndDay ==
    /\ pc = "slots"
    /\ current_time + SlotMinutes > EndOfDay(day_offset)
    /\ day_offset' = day_offset + 1
    /\ pc' = "search"
    /\ UNCHANGED <<error, clock, ticks, free_slots, events_result,
                   busy_intervals, current_time, queried, mainVars, envVars>>

\* line 86 false, line 162, line 238
Return ==
    /\ pc = "search"
    /\ ~(Len(free_slots) < min_slots)
    /\ main_free_slots' = Slice(free_slots, min_slots)
    /\ pc' = "select"
    \* the locals of get_free_slots end with the call
    /\ free_slots' = <<>>
    /\ events_result' = NoAnswer
    /\ busy_intervals' = <<>>
    /\ current_time' = 0
    /\ UNCHANGED <<error, clock, ticks, day_offset, queried, slot_choice,
                   lookups, jira_response, inserted, envVars>>

\* lines 240-241
NoSlots ==
    /\ pc = "select"
    /\ main_free_slots = <<>>
    /\ pc' = "done"
    /\ UNCHANGED <<error, clock, ticks, searchVars, mainVars, envVars>>

\* lines 243-254, 262-263: the slots are shown and a selection is read
Select ==
    /\ pc = "select"
    /\ main_free_slots # <<>>
    /\ \E inp \in Inputs :
        IF ~IntParses(inp)
        THEN /\ pc' = "done"
             /\ UNCHANGED slot_choice
        ELSE /\ slot_choice' = <<IntOf(inp) - 1>>
             /\ pc' = IF InvalidChoice(IntOf(inp) - 1, main_free_slots)
                      THEN "done" ELSE "book"
    /\ UNCHANGED <<error, clock, ticks, searchVars, main_free_slots, lookups,
                   jira_response, inserted, envVars>>

\* lines 169-204
book_meeting ==
    /\ pc = "book"
    /\ LET jira_key == extract_jira_key(title)
           slot == PyIndex(main_free_slots, slot_choice[1])
       IN  IF jira_key = None
           THEN /\ inserted' = Append(inserted, [summary |-> title, slot |-> slot])
                /\ pc' = "done"
                /\ UNCHANGED <<error, lookups, jira_response>>
           ELSE /\ lookups' = Append(lookups, jira_key)
                /\ \E r \in JiraResponses :
                    /\ jira_response' = r
                    /\ IF r.kind = "exception"
                       THEN /\ pc' = "crashed"
                            /\ error' = "ConnectionError"
                            /\ UNCHANGED inserted
                       ELSE /\ inserted' = Append(inserted,
                                   [summary |-> MeetingName(title, r),
                                    slot |-> slot])
                            /\ pc' = "done"
                            /\ UNCHANGED error
    /\ UNCHANGED <<clock, ticks, searchVars, main_free_slots, slot_choice, envVars>>

Next ==
    \/ Tick
    \/ SkipWeekend
    \/ QueryDay
    \/ ExamineSlot
    \/ EndDay
    \/ Return
    \/ NoSlots
    \/ Select
    \/ book_meeting

Spec == Init /\ [][Next]_vars

\* ===================================================================
\* Properties
\* ===================================================================
\* get_free_slots has returned to the main program
Returned == pc \in {"select", "book", "done"} \/ error = "ConnectionError"
\* the weekday most recently queried
LastQueried == queried[Len(queried)]
\* the slots of s that lie on the day at offset off
SlotsOn(s, off) ==
    {i \in 1..Len(s) : s[i][1] >= off * DayMinutes /\ s[i][1] < (off + 1) * DayMinutes}

\* a configured maximum lookahead, in day offsets
MaxLookahead == MaxDay - 1

\* C1: the search stops after at most a configured maximum number of day
\* offsets: the loop never goes on to a day offset at or beyond the maximum
\* lookahead with the quota still unmet.
C1_SearchBounded ==
    (pc = "search" /\ Len(free_slots) < min_slots) => day_offset < MaxLookahead

\* every entry starts at or after the end of the entry before it
C2_Chronological(s) ==
    \A i \in 1..(Len(s) - 1) : s[i + 1][1] >= s[i][2] /\ s[i + 1][1] > s[i][1]
C2_ResultShape ==
    Returned => /\ Len(main_free_slots) = min_slots
                /\ C2_Chronological(main_free_slots)
\* C2: when get_free_slots returns, the result is the first min_slots entries
\* of the slots collected, it has exactly min_slots entries, and every entry
\* starts at or after the end of the entry before it and later than it starts.
C2_ReturnsFirstQuotaSlots ==
    /\ []C2_ResultShape
    /\ [][(pc = "search" /\ pc' = "select") =>
            /\ Len(free_slots) >= min_slots
            /\ main_free_slots' = SubSeq(free_slots, 1, min_slots)
            /\ C2_Chronological(free_slots)]_vars
\* the quota is met on a day that produced more slots than were still needed,
\* after an earlier day contributed too
C2_Witness ==
    /\ pc = "search"
    /\ min_slots > 0
    /\ Len(free_slots) > min_slots
    /\ \E i \in 1..Len(free_slots) : DateOf(free_slots[i][1]) < DateOf(free_slots[Len(free_slots)][1])

\* the answer in events_result is the one for LastQueried
AnswerInHand ==
    /\ queried # <<>>
    /\ pc \in {"search", "slots"} \/ error \in {"KeyError", "ValueError"}
\* the summed length of the first n intervals of a reported busy list
RECURSIVE ReportedLoad(_, _)
ReportedLoad(busy, n) ==
    IF n = 0 THEN 0
    ELSE ReportedLoad(busy, n - 1) + (busy[n].end.utc - busy[n].start.utc)
Readable(entry) ==
    /\ entry.present
    /\ \A i \in 1..Len(entry.busy) : entry.busy[i].start.ok /\ entry.busy[i].end.ok
LoadOf(e) == ReportedLoad(events_result[e].busy, Len(events_result[e].busy))
FiveHours == 5 * 60
\* the slot loop was entered for the weekday most recently queried
AdmittedLast ==
    /\ DateOf(current_time) = LastQueried
    /\ current_time >= LastQueried * DayMinutes + 9 * 60

\* C3 as stated: a weekday whose evaluation is complete has contributed no
\* slot if and only if the primary attendee's busy intervals sum to more than
\* 5 hours.
C3_NoSlotIffOverFiveHours ==
    (/\ AnswerInHand
     /\ pc = "search"
     /\ day_offset = LastQueried + 1
     /\ Readable(events_result[first_email]))
    => (SlotsOn(free_slots, LastQueried) = {} <=> LoadOf(first_email) > FiveHours)

\* C3 as amended: a weekday is rejected by the admission test, so that none
\* of its slots is examined and it contributes no slot, if and only if the
\* primary attendee's busy intervals sum to strictly more than 5 hours,
\* whatever the other attendees' entries are; with 5 hours or less the slot
\* loop is entered (or reading another attendee's entry fails).
C3_AdmissionByPrimaryOnly ==
    (AnswerInHand /\ Readable(events_result[first_email])) =>
        IF LoadOf(first_email) > FiveHours
        THEN /\ pc # "crashed"
             /\ ~AdmittedLast
             /\ SlotsOn(free_slots, LastQueried) = {}
        ELSE AdmittedLast \/ pc = "crashed"
\* a day on which the primary attendee is busy exactly 5 hours and the other
\* attendee more than 5 hours has contributed a slot
C3_Witness ==
    /\ AnswerInHand
    /\ pc = "slots"
    /\ \A e \in Emails : Readable(events_result[e])
    /\ LoadOf(first_email) = FiveHours
    /\ \E e \in Emails : LoadOf(e) > FiveHours
    /\ SlotsOn(free_slots, LastQueried) # {}

\* half-open overlap of the intervals a1..a2 and b1..b2
Overlaps(a1, a2, b1, b2) == a1 < b2 /\ b1 < a2
\* the slot (local time) overlaps an interval the calendar reported (UTC) for
\* some attendee
OverlapsReported(slot_start, slot_end) ==
    \E e \in Emails : \E i \in 1..Len(events_result[e].busy) :
        Overlaps(slot_start - tzoff, slot_end - tzoff,
                 events_result[e].busy[i].start.utc, events_result[e].busy[i].end.utc)

\* no collected slot overlaps an interval of the day's answer
C4_NoCollectedSlotBusy ==
    pc = "slots" =>
        \A i \in 1..Len(free_slots) : ~OverlapsReported(free_slots[i][1], free_slots[i][2])
\* C4: on an admitted day a candidate slot (one the generator emits: not in
\* the lunch window, not in the past) is appended to the result if and only
\* if it overlaps no busy interval of any attendee, half-open; no collected
\* slot overlaps a busy interval of any attendee.
C4_FreeIffNoOverlap ==
    /\ []C4_NoCollectedSlotBusy
    /\ [][(pc = "slots" /\ current_time' # current_time) =>
            LET slot_start == current_time
                slot_end == current_time + 30
                appended == free_slots' = Append(free_slots, <<slot_start, slot_end>>)
            IN  IF ~SkipLunch(slot_start, slot_end) /\ ~(slot_start < clock)
                THEN /\ appended <=> ~OverlapsReported(slot_start, slot_end)
                     /\ appended \/ free_slots' = free_slots
                ELSE free_slots' = free_slots]_vars
\* two collected slots touch a busy interval, one with its end and one with
\* its start
C4_Witness ==
    /\ pc = "slots"
    /\ \E e \in Emails : \E j \in 1..Len(events_result[e].busy) :
        /\ \E i \in 1..Len(free_slots) :
              free_slots[i][2] - tzoff = events_result[e].busy[j].start.utc
        /\ \E i \in 1..Len(free_slots) :
              free_slots[i][1] - tzoff = events_result[e].busy[j].end.utc

\* C5: on a weekday lying entirely in the future on which no attendee has a
\* busy interval, exactly 12 slots are generated and collected, 4 in
\* 09:00-11:00 and 8 in 13:00-17:00, and none inside 11:00-13:00.
C5_TwelveSlotsOnFreeDay ==
    (/\ pc = "slots"
     /\ current_time = day_offset * DayMinutes + 17 * 60
     /\ clock <= day_offset * DayMinutes + 9 * 60
     /\ \A e \in Emails : events_result[e].present /\ events_result[e].busy = <<>>)
    => LET today == SlotsOn(free_slots, day_offset)
           minute(i) == free_slots[i][1] - day_offset * DayMinutes
       IN  /\ Cardinality(today) = 12
           /\ Cardinality({i \in today : minute(i) >= 9 * 60 /\ minute(i) + 30 <= 11 * 60}) = 4
           /\ Cardinality({i \in today : minute(i) >= 13 * 60 /\ minute(i) + 30 <= 17 * 60}) = 8
           /\ \A i \in today : ~(minute(i) >= 11 * 60 /\ minute(i) + 30 <= 13 * 60)

\* the date at day offset off is a Saturday or a Sunday
IsWeekend(off) == (start_weekday + off) % 7 \in {5, 6}

\* neither a queried day nor a collected or returned slot is on a weekend
C6_NoWeekendInState ==
    /\ \A i \in 1..Len(queried) : ~IsWeekend(queried[i])
    /\ \A i \in 1..Len(free_slots) : ~IsWeekend(DateOf(free_slots[i][1]))
    /\ \A i \in 1..Len(main_free_slots) : ~IsWeekend(DateOf(main_free_slots[i][1]))
\* C6: no freebusy query is issued for a Saturday or Sunday, for such a date
\* the loop only advances day_offset, and no collected or returned slot lies
\* on a Saturday or Sunday.
C6_WeekendsNeverQueried ==
    /\ []C6_NoWeekendInState
    /\ [][(pc = "search" /\ Len(free_slots) < min_slots /\ IsWeekend(day_offset)
           /\ clock' = clock)
          => /\ day_offset' = day_offset + 1
             /\ UNCHANGED <<pc, queried, free_slots, events_result>>]_vars
\* a slot was collected on a weekday that follows a weekend the loop passed
C6_Witness ==
    \E i \in 1..Len(free_slots) : \E d \in 0..DateOf(free_slots[i][1]) :
        /\ IsWeekend(d)
        /\ \E k \in 1..Len(queried) : queried[k] = DateOf(free_slots[i][1])

\* C7: when the title starts with a ticket key, a failed lookup (ticket not
\* found, or a transport error) leaves the booking to go on: the event is
\* submitted with the original title; after a successful lookup the submitted
\* title is "<KEY> - <summary>".
C7_LookupFailureNotFatal ==
    lookups # <<>> =>
        /\ Len(inserted) = 1
        /\ inserted[1].summary =
             IF jira_response.kind = "response" /\ jira_response.status_code = 200
             THEN lookups[1] \o <<" ", "-", " ">> \o jira_response.summary
             ELSE title

\* some timestamp of the answer in hand is malformed
MalformedInHand ==
    \E e \in Emails : \E i \in 1..Len(events_result[e].busy) :
        ~events_result[e].busy[i].start.ok \/ ~events_result[e].busy[i].end.ok

\* C8: a malformed timestamp in the answer for a day ends the evaluation of
\* that day only: the day contributes no slot and the loop has gone on to the
\* next day offset, the slots of earlier days kept.
C8_MalformedAbortsDayOnly ==
    (/\ AnswerInHand
     /\ \A e \in Emails : events_result[e].present
     /\ MalformedInHand)
    => /\ pc = "search"
       /\ day_offset > LastQueried
       /\ SlotsOn(free_slots, LastQueried) = {}

\* C9: an attendee without an entry in the answer for a day counts as free
\* all day: the evaluation of the day completes without error.
C9_MissingEntryIsFree ==
    (/\ AnswerInHand
     /\ \E e \in Emails : ~events_result[e].present
     /\ ~MalformedInHand)
    => pc # "crashed"

\* the selection read is a number from 1 to the number of slots shown
ValidSelection ==
    /\ slot_choice # <<>>
    /\ slot_choice[1] + 1 >= 1
    /\ slot_choice[1] + 1 <= Len(main_free_slots)
\* the selection has been read
SelectionRead == pc \in {"book", "done"} \/ error = "ConnectionError"

\* C10: a selection that is not a number from 1 to the number of slots shown
\* ends the run with neither an event insert nor a ticket lookup; in any run
\* the insert is called at most once, and only after a selection in range.
C10_BadSelectionNoSideEffects ==
    /\ Len(inserted) <= 1
    /\ (inserted # <<>> \/ lookups # <<>>) => ValidSelection
    /\ (SelectionRead /\ ~ValidSelection) =>
          pc = "done" /\ inserted = <<>> /\ lookups = <<>>
\* a run ended by a number above the range, with nothing inserted
C10_Witness ==
    /\ pc = "done"
    /\ main_free_slots # <<>>
    /\ slot_choice # <<>>
    /\ slot_choice[1] + 1 > Len(main_free_slots)
    /\ inserted = <<>>

\* no collected or returned slot starts before the time the search began
C11_NoSlotBeforeSearchBegan ==
    /\ \A i \in 1..Len(free_slots) : free_slots[i][1] >= local_now
    /\ \A i \in 1..Len(main_free_slots) : main_free_slots[i][1] >= local_now
    /\ clock >= local_now

\* C11: no returned slot starts before "now": a slot is collected only if
\* its start is not earlier than the clock read when it is examined, hence
\* not earlier than the time the search began, also on day offset 0 when the
\* search starts inside or after the working window.
C11_NoSlotInPast ==
    /\ []C11_NoSlotBeforeSearchBegan
    /\ [][(pc = "slots" /\ free_slots' # free_slots) =>
            /\ free_slots' = Append(free_slots, <<current_time, current_time + 30>>)
            /\ current_time >= clock]_vars
\* the search began inside the working window and a slot of day offset 0 was
\* collected after the clock had advanced past an earlier slot of that day
C11_Witness ==
    /\ pc = "slots"
    /\ day_offset = 0
    /\ local_now > 9 * 60
    /\ local_now < 17 * 60
    /\ clock > local_now
    /\ SlotsOn(free_slots, 0) # {}

\* the weekdays the loop has visited: those before day_offset, and the one at
\* day_offset while it is being evaluated
WeekdaysVisited ==
    {d \in 0..(day_offset - 1) : ~IsWeekend(d)}
    \cup (IF pc = "slots" \/ error \in {"KeyError", "ValueError"}
          THEN {day_offset} ELSE {})
\* every queried day holds exactly one slot of s
OneSlotPerQueriedDay(s) ==
    \A k \in 1..Len(queried) : Cardinality(SlotsOn(s, queried[k])) = 1
\* the queries so far: one per weekday visited, in increasing date order, and
\* five of them when the quota of 5 is met with one slot from each
C12_QueriesSoFar ==
    /\ \A i \in 1..(Len(queried) - 1) : queried[i] < queried[i + 1]
    /\ {queried[i] : i \in 1..Len(queried)} = WeekdaysVisited
    /\ (pc = "search" /\ min_slots = 5 /\ Len(free_slots) >= min_slots
        /\ OneSlotPerQueriedDay(free_slots)) => Len(queried) = 5
    /\ (Returned /\ min_slots = 5 /\ OneSlotPerQueriedDay(main_free_slots))
       => Len(queried) = 5

\* C12: the loop issues exactly one freebusy query per weekday it visits, in
\* strictly increasing date order, and none once the quota is reached: with
\* quota 5 and every weekday yielding exactly 1 free slot it queries exactly
\* 5 weekdays and no later day.
C12_OneQueryPerWeekday ==
    /\ []C12_QueriesSoFar
    /\ [][queried' # queried =>
            /\ pc = "search"
            /\ Len(free_slots) < min_slots
            /\ ~IsWeekend(day_offset)
            /\ queried' = Append(queried, day_offset)]_vars
\* quota 5 met by five weekdays of one slot each, with a weekend between the
\* first and the last of them
C12_Witness ==
    /\ pc = "search"
    /\ min_slots = 5
    /\ Len(free_slots) = 5
    /\ Len(queried) = 5
    /\ OneSlotPerQueriedDay(free_slots)
    /\ \E d \in queried[1]..queried[5] : IsWeekend(d)

====
